---- MODULE Spec2Model ----
(***************************************************************************)
(* Chat export pipeline of discord-export-archive.js: per-message keyword  *)
(* classification (classifyMessage) and segmentation of a channel's        *)
(* messages into conversations (groupIntoConversations).                    *)
(*                                                                         *)
(* A JavaScript string is modelled as the sequence of its UTF-16 code      *)
(* units, each written as a one-character TLA+ string.  Timestamps are     *)
(* Date values, modelled by their millisecond count.                       *)
(***************************************************************************)
EXTENDS Integers, Sequences, FiniteSets, TLC

VARIABLES
  fetched,        \* the messages array as exportChannelToMarkdown built it (line 77)
  extraArgs,      \* arguments a caller passes after `messages` (none at line 100)
  messages,       \* the same array object, which groupIntoConversations sorts in place
  conversations,  \* groupIntoConversations: const conversations = []
  currentConv,    \* groupIntoConversations: index in conversations of currentConv, 0 = null
  idx,            \* position of the for..of loop over messages
  pc,             \* control point of the export run
  \* calendar sync (discord-webhook-handler.js, lines 118-364)
  notionPages,    \* the Notion calendar database: pages per Google Event ID
  syncedEvents,   \* const syncedEvents = new Set()
  discordPosts,   \* the posts the calendar webhook has accepted
  pass,           \* the syncCalendar invocations and their local state
  \* exportAndArchive (discord-export-archive.js, lines 93-123 and 271-310)
  rendered,       \* the conversation sections appended to `markdown` so far
  uploaded,       \* conversations of this run that uploadToNotion has stored
  archive,        \* the Notion chat archive database: its pages, in creation order
  runs,           \* exportAndArchive runs started over the channel so far
  peer,           \* the locals of a second export run, in flight at the same time
  \* the Discord channel (discord-export-archive.js, lines 57-90 and 233-268)
  channel,        \* the channel's history as posted, oldest message first
  removed,        \* ids of the messages that msg.delete() has taken out of it
  dateLimit,      \* exportChannelToMarkdown: const dateLimit
  lastId,         \* exportChannelToMarkdown: let lastId
  clear,          \* the locals of a clearOldMessages call
  \* the Notion webhook endpoint (discord-webhook-handler.js, lines 1-100)
  hook,           \* the requests to POST /notion-webhook and their handling
  \* exportAndArchive over the configured channels (lines 271-310)
  job             \* a run of exportAndArchive: the loop over EXPORT_CHANNEL_IDS

groupingVars == <<fetched, extraArgs, messages, conversations, currentConv, idx, pc>>

calendarVars == <<notionPages, syncedEvents, discordPosts, pass>>

archiveVars == <<rendered, uploaded, archive, runs>>

channelVars == <<channel, removed, dateLimit, lastId, clear>>

serviceVars == <<hook, job>>

\* what the steps of groupIntoConversations leave alone
outsideExport == <<calendarVars, serviceVars, archiveVars, peer, channelVars>>

\* what the steps of the calendar sync leave alone
outsideCalendar == <<groupingVars, archiveVars, serviceVars, peer, channelVars>>

\* what rendering and archiving leave alone
outsideArchive == <<calendarVars, serviceVars, peer, channelVars>>

vars == <<groupingVars, calendarVars, serviceVars, archiveVars, peer, channelVars>>

----------------------------------------------------------------------------
(* Bounds of the model. *)

MaxLen == 3

----------------------------------------------------------------------------
(* Strings. *)

UpperChars == <<"A","B","C","D","E","F","G","H","I","J","K","L","M",
                "N","O","P","Q","R","S","T","U","V","W","X","Y","Z">>
LowerChars == <<"a","b","c","d","e","f","g","h","i","j","k","l","m",
                "n","o","p","q","r","s","t","u","v","w","x","y","z">>

lowerChar(c) ==
  IF \E i \in 1..Len(UpperChars) : UpperChars[i] = c
    THEN LowerChars[CHOOSE i \in 1..Len(UpperChars) : UpperChars[i] = c]
    ELSE c

\* String.prototype.toLowerCase
toLowerCase(s) == [i \in 1..Len(s) |-> lowerChar(s[i])]

\* String.prototype.includes
includes(s, k) ==
  \E i \in 0..(Len(s) - Len(k)) : SubSeq(s, i + 1, i + Len(k)) = k

Min(a, b) == IF a < b THEN a ELSE b

Range(s) == {s[i] : i \in 1..Len(s)}

\* String.prototype.substring(from, to) for 0 <= from <= to: the end is
\* clamped to the length of the string
substring(s, from, to) == SubSeq(s, from + 1, Min(to, Len(s)))

----------------------------------------------------------------------------
(* Tag classification rules, in the insertion order Object.entries yields. *)

TAG_RULES ==
  <<
     [tag |-> "NetSuite/P21", keywords |-> <<
        <<"n","e","t","s","u","i","t","e">>,  \* 'netsuite'
        <<"p","2","1">>,  \* 'p21'
        <<"e","r","p">>,  \* 'erp'
        <<"i","n","t","e","g","r","a","t","i","o","n">>   \* 'integration'
     >>],
     [tag |-> "Business", keywords |-> <<
        <<"m","e","e","t","i","n","g">>,  \* 'meeting'
        <<"s","t","r","a","t","e","g","y">>,  \* 'strategy'
        <<"p","l","a","n","n","i","n","g">>,  \* 'planning'
        <<"b","u","d","g","e","t">>   \* 'budget'
     >>],
     [tag |-> "Development", keywords |-> <<
        <<"c","o","d","e">>,  \* 'code'
        <<"g","i","t","h","u","b">>,  \* 'github'
        <<"d","e","p","l","o","y">>,  \* 'deploy'
        <<"b","u","g">>,  \* 'bug'
        <<"f","e","a","t","u","r","e">>   \* 'feature'
     >>],
     [tag |-> "Tools", keywords |-> <<
        <<"n","o","t","i","o","n">>,  \* 'notion'
        <<"d","i","s","c","o","r","d">>,  \* 'discord'
        <<"c","h","a","t","g","p","t">>,  \* 'chatgpt'
        <<"c","l","a","u","d","e">>,  \* 'claude'
        <<"s","h","a","r","e","X">>   \* 'shareX'
     >>],
     [tag |-> "Vegas/MGM", keywords |-> <<
        <<"v","e","g","a","s">>,  \* 'vegas'
        <<"m","g","m">>,  \* 'mgm'
        <<"c","o","n","f","e","r","e","n","c","e">>,  \* 'conference'
        <<"t","r","a","v","e","l">>   \* 'travel'
     >>],
     [tag |-> "Family", keywords |-> <<
        <<"f","a","m","i","l","y">>,  \* 'family'
        <<"p","e","r","s","o","n","a","l">>,  \* 'personal'
        <<"v","a","c","a","t","i","o","n">>   \* 'vacation'
     >>],
     [tag |-> "Tech/Hardware", keywords |-> <<
        <<"s","e","r","v","e","r">>,  \* 'server'
        <<"h","a","r","d","w","a","r","e">>,  \* 'hardware'
        <<"n","e","t","w","o","r","k">>,  \* 'network'
        <<"s","e","t","u","p">>   \* 'setup'
     >>]
  >>

UNCATEGORIZED == "Uncategorized"

RECURSIVE classifyFrom(_, _)
classifyFrom(lowerContent, r) ==
  IF r > Len(TAG_RULES) THEN UNCATEGORIZED
  ELSE IF \E j \in 1..Len(TAG_RULES[r].keywords) :
            includes(lowerContent, TAG_RULES[r].keywords[j])
         THEN TAG_RULES[r].tag
         ELSE classifyFrom(lowerContent, r + 1)

RECURSIVE classifyFromLast(_, _)
classifyFromLast(lowerContent, r) ==
  IF r < 1 THEN UNCATEGORIZED
  ELSE IF \E j \in 1..Len(TAG_RULES[r].keywords) :
            includes(lowerContent, TAG_RULES[r].keywords[j])
         THEN TAG_RULES[r].tag
         ELSE classifyFromLast(lowerContent, r - 1)

classifyMessageLastMatch(content) ==
  classifyFromLast(toLowerCase(content), Len(TAG_RULES))

classifyMessageCaseSensitive(content) == classifyFrom(content, 1)

classifyMessage(content) == classifyFrom(toLowerCase(content), 1)

----------------------------------------------------------------------------
(* Texts. *)

EmptyText == <<>>
DeployFix == <<"d","e","p","l","o","y"," ","f","i","x">>
\* 55 code units
LongDeploy ==
  <<"D","e","p","l","o","y"," ","t","h","e"," ","b","u","g"," ","f","i","x"," ","f","o","r"," ","t","h","e"," ","n","e","t","w","o","r","k"," ","s","e","t","u","p"," ","b","e","f","o","r","e"," ","r","e","l","e","a","s","e">>
\* exactly 50 code units
Text50 ==
  <<"P","l","a","n","n","i","n","g"," ","t","h","e"," ","s","t","r","a","t","e","g","y"," ","o","f","f","s","i","t","e",","," ","a","g","e","n","d","a"," ","t","o"," ","f","o","l","l","o","w",".",".","x">>
\* 51 code units
Text51 ==
  <<"S","e","r","v","e","r"," ","h","a","r","d","w","a","r","e"," ","a","r","r","i","v","e","d",";"," ","n","e","t","w","o","r","k"," ","s","e","t","u","p"," ","i","s"," ","o","n"," ","F","r","i","d","a","y">>
SoundsGood == <<"s","o","u","n","d","s"," ","g","o","o","d">>
Ok == <<"o","k">>

----------------------------------------------------------------------------
(* Timestamps: milliseconds of a Date.  Undefined stands for a message    *)
(* object without the field; arithmetic on it yields NaN.                  *)

Undefined == 0 - 1

\* 30 * 60 * 1000, the literal of line 137
GAP_MS == 30 * 60 * 1000

Minutes(n) == n * 60 * 1000

isDefined(t) == t # Undefined

\* a.timestamp - b.timestamp > 0 ; false when the difference is NaN
comesAfter(a, b) ==
  isDefined(a.timestamp) /\ isDefined(b.timestamp) /\ a.timestamp - b.timestamp > 0

----------------------------------------------------------------------------
(* Array.prototype.sort with the comparator (a, b) => a.timestamp -         *)
(* b.timestamp.  The sort is stable; with a comparator that is not         *)
(* consistent (a NaN difference) the resulting order is                    *)
(* implementation-defined.                                                 *)

insertSortedDescending(s, m) ==
  LET k == Cardinality({i \in 1..Len(s) : ~comesAfter(m, s[i])})
  IN  SubSeq(s, 1, k) \o <<m>> \o SubSeq(s, k + 1, Len(s))

\* s is sorted; m goes behind every element that does not come after it
insertSorted(s, m) ==
  LET k == Cardinality({i \in 1..Len(s) : ~comesAfter(s[i], m)})
  IN  SubSeq(s, 1, k) \o <<m>> \o SubSeq(s, k + 1, Len(s))

RECURSIVE stableSort(_)
stableSort(s) ==
  IF s = <<>> THEN <<>>
  ELSE insertSorted(stableSort(SubSeq(s, 1, Len(s) - 1)), s[Len(s)])

Reorderings(s) ==
  {[i \in 1..Len(s) |-> s[f[i]]] :
     f \in {g \in [1..Len(s) -> 1..Len(s)] :
              \A i, j \in 1..Len(s) : i # j => g[i] # g[j]}}

sortOutcomesUnsorted(s) == {s}

sortOutcomes(s) ==
  IF \A i \in 1..Len(s) : isDefined(s[i].timestamp)
    THEN {stableSort(s)}
    ELSE Reorderings(s)

----------------------------------------------------------------------------
(* JavaScript Set: insertion-ordered, without duplicates. *)

EmptySet == [kind |-> "Set", items |-> <<>>]

setAddDuplicating(set, x) == [set EXCEPT !.items = Append(@, x)]

\* Set.prototype.add
setAdd(set, x) ==
  IF \E i \in 1..Len(set.items) : set.items[i] = x
    THEN set
    ELSE [set EXCEPT !.items = Append(@, x)]

\* Array.from(set)
arrayFrom(set) == set.items

----------------------------------------------------------------------------
(* groupIntoConversations, lines 134-152: one iteration of the scan. *)

TITLE_LEN == 50
Ellipsis == <<".", ".", ".">>

isNewConvAtThreshold(convs, cur, msg) ==
  IF cur = 0 THEN TRUE
  ELSE LET last == convs[cur].messages[Len(convs[cur].messages)]
       IN  /\ isDefined(msg.timestamp) /\ isDefined(last.timestamp)
           /\ msg.timestamp - last.timestamp >= GAP_MS

isNewConvWithArgument(convs, cur, msg) ==
  IF cur = 0 THEN TRUE
  ELSE LET last == convs[cur].messages[Len(convs[cur].messages)]
           gap  == IF extraArgs = <<>> THEN GAP_MS ELSE extraArgs[1]
       IN  /\ isDefined(msg.timestamp) /\ isDefined(last.timestamp)
           /\ msg.timestamp - last.timestamp > gap

\* lines 136-137
isNewConv(convs, cur, msg) ==
  IF cur = 0 THEN TRUE
  ELSE LET last == convs[cur].messages[Len(convs[cur].messages)]
       IN  /\ isDefined(msg.timestamp) /\ isDefined(last.timestamp)
           /\ msg.timestamp - last.timestamp > GAP_MS

titleOfIfLonger(content) ==
  IF Len(content) > TITLE_LEN
    THEN substring(content, 0, TITLE_LEN) \o Ellipsis
    ELSE content

\* line 141
titleOf(content) == substring(content, 0, TITLE_LEN) \o Ellipsis

\* lines 140-145
newConversation(msg) ==
  [title |-> titleOf(msg.content),
   messages |-> <<>>,
   participants |-> EmptySet,
   tags |-> EmptySet]

addToConvUnlessFirst(conv, msg) ==
  IF conv.messages = <<>> THEN conv
  ELSE [conv EXCEPT !.messages = Append(@, msg),
                    !.participants = setAdd(@, msg.author),
                    !.tags = setAdd(@, msg.tag)]

addToConvFirstAuthorOnly(conv, msg) ==
  IF conv.messages = <<>>
    THEN [conv EXCEPT !.messages = Append(@, msg),
                      !.participants = setAdd(@, msg.author),
                      !.tags = setAdd(@, msg.tag)]
    ELSE [conv EXCEPT !.messages = Append(@, msg)]

\* lines 149-151
addToConv(conv, msg) ==
  [conv EXCEPT !.messages = Append(@, msg),
               !.participants = setAdd(@, msg.author),
               !.tags = setAdd(@, msg.tag)]

\* lines 155-158
convertSets(conv) ==
  [conv EXCEPT !.participants = arrayFrom(@), !.tags = arrayFrom(@)]

----------------------------------------------------------------------------
(* Raw Discord messages and the pages a channel serves. *)

Posts ==
  { [author |-> "alice", content |-> DeployFix],
    [author |-> "alice", content |-> EmptyText],
    [author |-> "bob",   content |-> LongDeploy] }

Timestamps == {0, Minutes(30), Minutes(60) + 1}

\* a page: raw messages with ids 1..n in page order
PagesOver(posts, times, n) ==
  UNION { { [k \in 1..len |->
               [id |-> k, author |-> ps[k].author, content |-> ps[k].content,
                createdAt |-> ts[k]]] :
            ps \in [1..len -> posts], ts \in [1..len -> times] } :
          len \in 0..n }

\* the scenario [t0, t0+5m, t0+40m, t0+41m]
ScenarioPage(t0) ==
  << [id |-> 1, author |-> "alice", content |-> Text50,     createdAt |-> t0],
     [id |-> 2, author |-> "bob",   content |-> SoundsGood, createdAt |-> t0 + Minutes(5)],
     [id |-> 3, author |-> "bob",   content |-> Text51,     createdAt |-> t0 + Minutes(40)],
     [id |-> 4, author |-> "alice", content |-> Ok,         createdAt |-> t0 + Minutes(41)] >>

ScenarioPages ==
  UNION { Reorderings(ScenarioPage(t0)) : t0 \in {0, 1000} }

Pages == PagesOver(Posts, Timestamps, MaxLen) \cup ScenarioPages

\* texts that exercise the rule table: every keyword in lower case, in
\* upper case, capitalised and as written in the table, bare and embedded;
\* every ordered pair of keywords; and texts without any keyword
upperChar(c) ==
  IF \E i \in 1..Len(LowerChars) : LowerChars[i] = c
    THEN UpperChars[CHOOSE i \in 1..Len(LowerChars) : LowerChars[i] = c]
    ELSE c

toUpperCase(s) == [i \in 1..Len(s) |-> upperChar(s[i])]

Capitalised(s) ==
  [i \in 1..Len(s) |-> IF i = 1 THEN upperChar(s[i]) ELSE lowerChar(s[i])]

Keywords ==
  UNION { Range(TAG_RULES[r].keywords) : r \in 1..Len(TAG_RULES) }

ClassifyTexts ==
  LET variants == UNION { {k, toLowerCase(k), toUpperCase(k), Capitalised(k)} :
                          k \in Keywords }
  IN  { pre \o v \o post :
          pre \in {<<>>, <<"a", " ">>}, v \in variants, post \in {<<>>, <<"!">>} }
      \cup { toLowerCase(k1) \o <<" ">> \o toLowerCase(k2) :
               k1 \in Keywords, k2 \in Keywords }
      \cup { EmptyText, Ok, SoundsGood }

ClassifyPages ==
  { << [id |-> 1, author |-> "alice", content |-> text, createdAt |-> 0] >> :
      text \in ClassifyTexts }

\* lists for a direct call of groupIntoConversations: messages may lack a
\* timestamp, and the caller may pass a gap threshold of its own
CallPosts == { [author |-> "alice", content |-> DeployFix] }

CallTimestamps == Timestamps \cup {Undefined}

CallPages == PagesOver(CallPosts, CallTimestamps, MaxLen)

GapArgs == { <<>>, <<Minutes(5)>>, <<Minutes(120)>> }

----------------------------------------------------------------------------
(* Calendar sync: syncCalendar, syncEventToNotion and notifyDiscord of     *)
(* discord-webhook-handler.js.  syncCalendar is started at startup and by  *)
(* every cron tick without being awaited, so invocations may overlap.  A   *)
(* step of an invocation is the completion of the operation it awaits,     *)
(* followed by the synchronous code up to its next await.                  *)

MaxPasses == 2

Passes == 1..MaxPasses

EventIds == {"e1", "e2"}

\* response.data.items: the listed events, each with whether its start lies
\* more than 0 and at most 1 hour after the time line 327 reads the clock
EventLists ==
  LET ev(id, soon) == [id |-> id, soon |-> soon]
  IN  {<<>>}
      \cup { <<ev(a, s)>> : a \in EventIds, s \in BOOLEAN }
      \cup { <<ev(ab[1], s), ev(ab[2], u)>> :
               ab \in {x \in EventIds \X EventIds : x[1] # x[2]},
               s \in BOOLEAN, u \in BOOLEAN }

\* line 332
reminderKey(id) == "reminder-" \o id

IdlePass ==
  [cpc |-> "idle", events |-> <<>>, i |-> 0, found |-> FALSE,
   upcoming |-> <<>>, j |-> 0, listed |-> FALSE, ownFailed |-> {}]

InitCalendar ==
  /\ notionPages = [e \in EventIds |-> 0]
  /\ syncedEvents = {}
  /\ discordPosts = {}
  /\ pass = [p \in Passes |-> IdlePass]

\* lines 331-333: the first upcoming event from position j on that has no
\* reminder key in syncedEvents, 0 when there is none
firstUnreminded(upcoming, j, synced) ==
  LET open == {k \in j..Len(upcoming) : reminderKey(upcoming[k].id) \notin synced}
  IN  IF open = {} THEN 0 ELSE CHOOSE k \in open : \A q \in open : k <= q

\* lines 325-334: the filter and the reminder loop up to its first await
enterReminders(ps, synced) ==
  LET up == SelectSeq(ps.events, LAMBDA e : e.soon)
      k  == firstUnreminded(up, 1, synced)
  IN  [ps EXCEPT !.upcoming = up, !.j = k,
                 !.cpc = IF k = 0 THEN "end" ELSE "remind"]

\* lines 307-310 and 318-322: the end of an iteration of the sync loop, up
\* to the query the next iteration awaits
afterEvent(ps, synced) ==
  IF ps.i < Len(ps.events)
    THEN [ps EXCEPT !.i = @ + 1, !.cpc = "query"]
    ELSE enterReminders(ps, synced)

\* lines 351-356: a cron tick or the startup call
CalStart(p) ==
  /\ pass[p].cpc = "idle"
  /\ pass' = [pass EXCEPT ![p].cpc = "list"]
  /\ UNCHANGED <<notionPages, syncedEvents, discordPosts>>
  /\ UNCHANGED outsideCalendar

\* lines 295-310: calendar.events.list resolves
CalListOk(p) ==
  /\ pass[p].cpc = "list"
  /\ \E evs \in EventLists :
       pass' = [pass EXCEPT ![p] =
                  IF evs = <<>>
                    THEN enterReminders([@ EXCEPT !.events = evs, !.listed = TRUE],
                                        syncedEvents)
                    ELSE [@ EXCEPT !.events = evs, !.listed = TRUE,
                                   !.i = 1, !.cpc = "query"]]
  /\ UNCHANGED <<notionPages, syncedEvents, discordPosts>>
  /\ UNCHANGED outsideCalendar

\* lines 295, 340-346: calendar.events.list rejects
CalListFail(p) ==
  /\ pass[p].cpc = "list"
  /\ pass' = [pass EXCEPT ![p].cpc = "errorPost"]
  /\ UNCHANGED <<notionPages, syncedEvents, discordPosts>>
  /\ UNCHANGED outsideCalendar

\* lines 199-209: notion.databases.query resolves
CalQueryOk(p) ==
  /\ pass[p].cpc = "query"
  /\ pass' = [pass EXCEPT ![p].found = notionPages[pass[p].events[pass[p].i].id] > 0,
                          ![p].cpc = "write"]
  /\ UNCHANGED <<notionPages, syncedEvents, discordPosts>>
  /\ UNCHANGED outsideCalendar

\* lines 199, 319-321: notion.databases.query rejects
CalQueryFail(p) ==
  /\ pass[p].cpc = "query"
  /\ pass' = [pass EXCEPT ![p] = afterEvent(@, syncedEvents)]
  /\ UNCHANGED <<notionPages, syncedEvents, discordPosts>>
  /\ UNCHANGED outsideCalendar

\* lines 209-215 and 313-318: notion.pages.update resolves, 'updated'
CalUpdateOk(p) ==
  /\ pass[p].cpc = "write"
  /\ pass[p].found
  /\ pass' = [pass EXCEPT ![p] = afterEvent(@, syncedEvents)]
  /\ UNCHANGED <<notionPages, syncedEvents, discordPosts>>
  /\ UNCHANGED outsideCalendar

\* lines 216-222 and 313-314: notion.pages.create resolves, 'created'
CalCreateOk(p) ==
  /\ pass[p].cpc = "write"
  /\ ~pass[p].found
  /\ LET id == pass[p].events[pass[p].i].id
     IN  /\ notionPages' = [notionPages EXCEPT ![id] = @ + 1]
         /\ pass' = [pass EXCEPT ![p] =
                       IF id \notin syncedEvents
                         THEN [@ EXCEPT !.cpc = "notifyCreated"]
                         ELSE afterEvent(@, syncedEvents)]
  /\ UNCHANGED <<syncedEvents, discordPosts>>
  /\ UNCHANGED outsideCalendar

\* lines 211, 218, 319-321: notion.pages.update or create rejects
CalWriteFail(p) ==
  /\ pass[p].cpc = "write"
  /\ pass' = [pass EXCEPT ![p] = afterEvent(@, syncedEvents)]
  /\ UNCHANGED <<notionPages, syncedEvents, discordPosts>>
  /\ UNCHANGED outsideCalendar

\* lines 314-315, 272: the post of the 'created' notification resolves
CalNotifyCreatedOk(p) ==
  /\ pass[p].cpc = "notifyCreated"
  /\ LET id == pass[p].events[pass[p].i].id
     IN  /\ discordPosts' = discordPosts \cup
              {[kind |-> "created", id |-> id, pass |-> p, action |-> "created"]}
         /\ syncedEvents' = syncedEvents \cup {id}
         /\ pass' = [pass EXCEPT ![p] = afterEvent(@, syncedEvents')]
  /\ UNCHANGED notionPages
  /\ UNCHANGED outsideCalendar

\* lines 314, 319-321: the post of the 'created' notification rejects
CalNotifyCreatedFail(p) ==
  /\ pass[p].cpc = "notifyCreated"
  /\ pass' = [pass EXCEPT ![p] = afterEvent(@, syncedEvents)]
  /\ UNCHANGED <<notionPages, syncedEvents, discordPosts>>
  /\ UNCHANGED outsideCalendar

\* lines 334-337: the post of a reminder resolves
CalRemindOk(p) ==
  /\ pass[p].cpc = "remind"
  /\ LET id == pass[p].upcoming[pass[p].j].id
         k  == firstUnreminded(pass[p].upcoming, pass[p].j + 1, syncedEvents')
     IN  /\ discordPosts' = discordPosts \cup
              {[kind |-> "reminder", id |-> id, pass |-> p, action |-> "reminder"]}
         /\ syncedEvents' = syncedEvents \cup {reminderKey(id)}
         /\ pass' = [pass EXCEPT ![p].j = k,
                                 ![p].cpc = IF k = 0 THEN "end" ELSE "remind"]
  /\ UNCHANGED notionPages
  /\ UNCHANGED outsideCalendar

\* lines 334, 340-346: the post of a reminder rejects; the reminder loop has
\* no handler of its own, so the pass goes to the handler of line 340
CalRemindFail(p) ==
  /\ pass[p].cpc = "remind"
  /\ pass' = [pass EXCEPT ![p].ownFailed = @ \cup {pass[p].upcoming[pass[p].j].id},
                          ![p].cpc = "errorPost"]
  /\ UNCHANGED <<notionPages, syncedEvents, discordPosts>>
  /\ UNCHANGED outsideCalendar

\* lines 344-347: the post of the error notice resolves
CalErrorPostOk(p) ==
  /\ pass[p].cpc = "errorPost"
  /\ discordPosts' = discordPosts \cup
       {[kind |-> "error", id |-> "", pass |-> p, action |-> ""]}
  /\ pass' = [pass EXCEPT ![p].cpc = "end"]
  /\ UNCHANGED <<notionPages, syncedEvents>>
  /\ UNCHANGED outsideCalendar

\* lines 344-347: the post of the error notice rejects
CalErrorPostFail(p) ==
  /\ pass[p].cpc = "errorPost"
  /\ pass' = [pass EXCEPT ![p].cpc = "end"]
  /\ UNCHANGED <<notionPages, syncedEvents, discordPosts>>
  /\ UNCHANGED outsideCalendar

----------------------------------------------------------------------------
(* The Notion webhook endpoint, discord-webhook-handler.js lines 1-100.     *)
(* Every request has a handler of its own; the handlers share no state.     *)

MaxRequests == 2

Slots == 1..MaxRequests

\* config.NOTION_SECRET
NOTION_SECRET == "notion-secret"

\* what formatDiscordMessage reads of a parsed body: whether it has a page,
\* a user, and a non-empty list of changes
Payloads ==
  { [page |-> TRUE,  user |-> TRUE,  changes |-> TRUE],
    [page |-> TRUE,  user |-> TRUE,  changes |-> FALSE],
    [page |-> TRUE,  user |-> FALSE, changes |-> FALSE],
    [page |-> FALSE, user |-> FALSE, changes |-> FALSE] }

\* a body without the fields formatDiscordMessage reads, such as the {} that
\* express.json() leaves for a body it does not take for JSON
NoPayload == [page |-> FALSE, user |-> FALSE, changes |-> FALSE]

\* JSON.stringify(payload): the text of the parsed body
stringify(payload) == <<"json", payload>>

\* crypto.createHmac('sha256', key).update(text).digest('hex')
hmac(key, text) == [kind |-> "hex", key |-> key, text |-> text]

\* req.headers['x-notion-signature'] of a request without the header
Absent == [kind |-> "absent", key |-> "", text |-> <<>>]

\* the header sent with an empty value: the string ''
EmptyValue == [kind |-> "empty", key |-> "", text |-> <<>>]

\* the values of the header a request with this payload may carry: none,
\* the empty string, the signature of the body, a signature under another
\* key, and the signatures of other bodies
SignaturesFor(payload) ==
  {Absent, EmptyValue, hmac("guessed-secret", stringify(payload))}
    \cup {hmac(NOTION_SECRET, stringify(q)) : q \in Payloads}

\* a request: its body as express.json() of line 9 meets it, and the header
Requests ==
  { [body |-> "json", payload |-> q, signature |-> g] :
      q \in Payloads, g \in UNION {SignaturesFor(x) : x \in Payloads} }
  \cup { [body |-> "malformed", payload |-> NoPayload, signature |-> g] :
           g \in {Absent, hmac("guessed-secret", stringify(NoPayload))} }

\* line 86, `signature &&`: undefined and '' are falsy
truthy(signature) == signature.kind = "hex"

\* lines 25-31
verifyNotionSignature(payload, signature) ==
  hmac(NOTION_SECRET, stringify(payload)) = signature

\* line 86: the request is turned away
invalidSignature(req) ==
  truthy(req.signature) /\ ~verifyNotionSignature(req.payload, req.signature)

\* lines 35-52: page.title and user.id are read of what may be undefined
formatThrows(payload) == ~payload.page \/ ~payload.user

IdleRequest ==
  [pc |-> "idle",
   req |-> [body |-> "none", payload |-> NoPayload, signature |-> Absent],
   responses |-> <<>>, posted |-> FALSE, failure |-> "none"]

InitHook == hook = [r \in Slots |-> IdleRequest]

\* line 9: express.json() cannot parse the body; the request is answered
\* with 400 and the handler of line 82 is not called
HookParseFail(r) ==
  /\ hook[r].pc = "idle"
  /\ \E req \in Requests :
       /\ req.body = "malformed"
       /\ hook' = [hook EXCEPT ![r] =
                     [@ EXCEPT !.req = req, !.responses = <<400>>, !.pc = "done"]]
  /\ UNCHANGED job
  /\ UNCHANGED <<groupingVars, calendarVars, archiveVars, peer, channelVars>>

\* lines 85-88
HookUnauthorized(r) ==
  /\ hook[r].pc = "idle"
  /\ \E req \in Requests :
       /\ req.body = "json"
       /\ invalidSignature(req)
       /\ hook' = [hook EXCEPT ![r] =
                     [@ EXCEPT !.req = req, !.responses = <<401>>, !.pc = "done"]]
  /\ UNCHANGED job
  /\ UNCHANGED <<groupingVars, calendarVars, archiveVars, peer, channelVars>>

\* lines 85-91 and 96-98: formatDiscordMessage throws
HookFormatFail(r) ==
  /\ hook[r].pc = "idle"
  /\ \E req \in Requests :
       /\ req.body = "json"
       /\ ~invalidSignature(req)
       /\ formatThrows(req.payload)
       /\ hook' = [hook EXCEPT ![r] =
                     [@ EXCEPT !.req = req, !.failure = "format",
                               !.responses = <<500>>, !.pc = "done"]]
  /\ UNCHANGED job
  /\ UNCHANGED <<groupingVars, calendarVars, archiveVars, peer, channelVars>>

\* lines 85-93: the message is formatted and the post to Discord is awaited
HookForward(r) ==
  /\ hook[r].pc = "idle"
  /\ \E req \in Requests :
       /\ req.body = "json"
       /\ ~invalidSignature(req)
       /\ ~formatThrows(req.payload)
       /\ hook' = [hook EXCEPT ![r] = [@ EXCEPT !.req = req, !.pc = "posting"]]
  /\ UNCHANGED job
  /\ UNCHANGED <<groupingVars, calendarVars, archiveVars, peer, channelVars>>

\* lines 93-95: axios.post resolves
HookPostOk(r) ==
  /\ hook[r].pc = "posting"
  /\ hook' = [hook EXCEPT ![r] =
                [@ EXCEPT !.posted = TRUE, !.responses = Append(@, 200),
                          !.pc = "done"]]
  /\ UNCHANGED job
  /\ UNCHANGED <<groupingVars, calendarVars, archiveVars, peer, channelVars>>

HookPostFailAnswering200(r) ==
  /\ hook[r].pc = "posting"
  /\ hook' = [hook EXCEPT ![r] =
                [@ EXCEPT !.failure = "post", !.responses = Append(@, 200),
                          !.pc = "done"]]
  /\ UNCHANGED job
  /\ UNCHANGED <<groupingVars, calendarVars, archiveVars, peer, channelVars>>

\* lines 93 and 96-98: axios.post rejects
HookPostFail(r) ==
  /\ hook[r].pc = "posting"
  /\ hook' = [hook EXCEPT ![r] =
                [@ EXCEPT !.failure = "post", !.responses = Append(@, 500),
                          !.pc = "done"]]
  /\ UNCHANGED job
  /\ UNCHANGED <<groupingVars, calendarVars, archiveVars, peer, channelVars>>

----------------------------------------------------------------------------
(* exportAndArchive, discord-export-archive.js lines 271-310: the loop over *)
(* the configured channels.  A step is the settling of one await.           *)

\* the length of config.EXPORT_CHANNEL_IDS
MaxChannels == 2

\* the most conversations an export returns
MaxConvs == 2

ChannelIds == 1..MaxChannels

\* values of process.env.AUTO_CLEAR_MESSAGES; "unset" stands for undefined
EnvValues == {"unset", "", "false", "TRUE", "true"}

autoClearOnIfSet(value) == value \notin {"unset", ""}

\* line 300
autoClearOn(value) == value = "true"

\* what the run has done for a channel
FreshChannel ==
  [fetchAsked |-> FALSE, exported |-> FALSE, written |-> FALSE, convs |-> 0,
   uploads |-> 0, clearCalled |-> FALSE, failedAt |-> "none"]

IdleJob ==
  [jpc |-> "idle", c |-> 0, autoClear |-> "unset",
   chans |-> [c \in ChannelIds |-> FreshChannel]]

InitJob(values) == job \in {[IdleJob EXCEPT !.autoClear = v] : v \in values}

\* lines 274-276: the loop goes to the next channel id and asks for the
\* channel, or is over
nextChannel(j) ==
  IF j.c < MaxChannels
    THEN [j EXCEPT !.c = @ + 1, !.chans[j.c + 1].fetchAsked = TRUE,
                   !.jpc = "channel"]
    ELSE [j EXCEPT !.jpc = "end"]

onErrorLeavingLoop(j, at) ==
  [j EXCEPT !.chans[j.c].failedAt = at, !.jpc = "end"]

\* lines 304-307: the catch inside the loop logs and the loop goes on
onError(j, at) == nextChannel([j EXCEPT !.chans[j.c].failedAt = at])

\* lines 297-302: after the last upload
afterUploads(j) ==
  IF autoClearOn(j.autoClear)
    THEN [j EXCEPT !.chans[j.c].clearCalled = TRUE, !.jpc = "clear"]
    ELSE nextChannel(j)

\* lines 290-292: after the file is written
afterWrite(j) ==
  IF j.chans[j.c].convs > 0 THEN [j EXCEPT !.jpc = "upload"] ELSE afterUploads(j)

\* lines 271-276, called by the cron job or by !export
JobStart ==
  /\ job.jpc = "idle"
  /\ job' = nextChannel(job)
  /\ UNCHANGED hook
  /\ UNCHANGED <<groupingVars, calendarVars, archiveVars, peer, channelVars>>

\* lines 276-280: discord.channels.fetch resolves with a text channel
JobChannelOk ==
  /\ job.jpc = "channel"
  /\ job' = [job EXCEPT !.jpc = "export"]
  /\ UNCHANGED hook
  /\ UNCHANGED <<groupingVars, calendarVars, archiveVars, peer, channelVars>>

\* line 277: no channel, or not a text channel: continue
JobChannelSkipped ==
  /\ job.jpc = "channel"
  /\ job' = nextChannel(job)
  /\ UNCHANGED hook
  /\ UNCHANGED <<groupingVars, calendarVars, archiveVars, peer, channelVars>>

\* lines 276 and 304-306: discord.channels.fetch rejects
JobChannelFail ==
  /\ job.jpc = "channel"
  /\ job' = onError(job, "fetch")
  /\ UNCHANGED hook
  /\ UNCHANGED <<groupingVars, calendarVars, archiveVars, peer, channelVars>>

\* lines 280-285: exportChannelToMarkdown resolves with its conversations
JobExportOk ==
  /\ job.jpc = "export"
  /\ \E n \in 0..MaxConvs :
       job' = [job EXCEPT !.chans[job.c].exported = TRUE,
                          !.chans[job.c].convs = n, !.jpc = "mkdir"]
  /\ UNCHANGED hook
  /\ UNCHANGED <<groupingVars, calendarVars, archiveVars, peer, channelVars>>

\* lines 280 and 304-306: exportChannelToMarkdown rejects
JobExportFail ==
  /\ job.jpc = "export"
  /\ job' = onError(job, "export")
  /\ UNCHANGED hook
  /\ UNCHANGED <<groupingVars, calendarVars, archiveVars, peer, channelVars>>

\* lines 285-286: fs.mkdir resolves
JobMkdirOk ==
  /\ job.jpc = "mkdir"
  /\ job' = [job EXCEPT !.jpc = "write"]
  /\ UNCHANGED hook
  /\ UNCHANGED <<groupingVars, calendarVars, archiveVars, peer, channelVars>>

\* lines 285 and 304-306: fs.mkdir rejects
JobMkdirFail ==
  /\ job.jpc = "mkdir"
  /\ job' = onError(job, "mkdir")
  /\ UNCHANGED hook
  /\ UNCHANGED <<groupingVars, calendarVars, archiveVars, peer, channelVars>>

\* lines 286-292: fs.writeFile resolves
JobWriteOk ==
  /\ job.jpc = "write"
  /\ job' = afterWrite([job EXCEPT !.chans[job.c].written = TRUE])
  /\ UNCHANGED hook
  /\ UNCHANGED <<groupingVars, calendarVars, archiveVars, peer, channelVars>>

\* lines 286 and 304-306: fs.writeFile rejects
JobWriteFail ==
  /\ job.jpc = "write"
  /\ job' = onError(job, "write")
  /\ UNCHANGED hook
  /\ UNCHANGED <<groupingVars, calendarVars, archiveVars, peer, channelVars>>

\* lines 291-302: uploadToNotion resolves and the pause passes
JobUploadOk ==
  /\ job.jpc = "upload"
  /\ LET j == [job EXCEPT !.chans[job.c].uploads = @ + 1]
     IN  job' = IF j.chans[j.c].uploads < j.chans[j.c].convs THEN j
                ELSE afterUploads(j)
  /\ UNCHANGED hook
  /\ UNCHANGED <<groupingVars, calendarVars, archiveVars, peer, channelVars>>

\* lines 292 and 304-306: uploadToNotion rejects
JobUploadFail ==
  /\ job.jpc = "upload"
  /\ job' = onError(job, "upload")
  /\ UNCHANGED hook
  /\ UNCHANGED <<groupingVars, calendarVars, archiveVars, peer, channelVars>>

\* lines 301-307: clearOldMessages returns
JobClearOk ==
  /\ job.jpc = "clear"
  /\ job' = nextChannel(job)
  /\ UNCHANGED hook
  /\ UNCHANGED <<groupingVars, calendarVars, archiveVars, peer, channelVars>>

\* lines 301 and 304-306: clearOldMessages rejects
JobClearFail ==
  /\ job.jpc = "clear"
  /\ job' = onError(job, "clear")
  /\ UNCHANGED hook
  /\ UNCHANGED <<groupingVars, calendarVars, archiveVars, peer, channelVars>>

----------------------------------------------------------------------------
(* The export run. *)

InitExport ==
  /\ fetched = <<>>
  /\ extraArgs = <<>>
  /\ messages = <<>>
  /\ conversations = <<>>
  /\ currentConv = 0
  /\ idx = 0
  /\ pc = "fetch"

InitArchive ==
  /\ rendered = <<>>
  /\ uploaded = 0
  /\ archive = <<>>
  /\ runs = 1

\* a second run of exportChannelToMarkdown before its first statement
IdlePeer ==
  [pc |-> "fetch", dateLimit |-> Undefined, lastId |-> Undefined,
   messages |-> <<>>, conversations |-> <<>>]

InitPeer == peer = IdlePeer

\* clearOldMessages before it is called
IdleClear ==
  [cpc |-> "idle", dateLimit |-> Undefined, lastId |-> Undefined,
   page |-> <<>>, k |-> 0, deleted |-> 0, errors |-> <<>>]

\* a channel with one of the given histories, nothing deleted from it
InitChannel(histories) ==
  /\ channel \in histories
  /\ removed = {}
  /\ dateLimit = Undefined
  /\ lastId = Undefined
  /\ clear = IdleClear

Init ==
  /\ InitExport
  /\ InitCalendar
  /\ InitArchive
  /\ InitPeer
  /\ InitChannel({<<>>})
  /\ InitHook
  /\ InitJob({"unset"})

\* exportChannelToMarkdown, lines 74-86: the messages of the fetched page
\* are pushed with their classification.  Every message of a page is within
\* the date limit, so the loop of line 74 runs to the end of the page.
exportedMessage(msg) ==
  [id |-> msg.id,
   author |-> msg.author,
   content |-> msg.content,
   timestamp |-> msg.createdAt,
   tag |-> classifyMessage(msg.content)]

ExportPage(pages) ==
  /\ pc = "fetch"
  /\ \E page \in pages :
       /\ messages' = [k \in 1..Len(page) |-> exportedMessage(page[k])]
       /\ fetched' = messages'
  /\ pc' = "group"
  /\ UNCHANGED <<extraArgs, conversations, currentConv, idx>>
  /\ UNCHANGED outsideExport

\* groupIntoConversations, lines 127-132: called with `messages` and
\* whatever else the caller passes; sorts the array in place
GroupEnter(argLists) ==
  /\ pc = "group"
  /\ \E args \in argLists : extraArgs' = args
  /\ messages' \in sortOutcomes(messages)
  /\ conversations' = <<>>
  /\ currentConv' = 0
  /\ idx' = 1
  /\ pc' = "scan"
  /\ UNCHANGED fetched
  /\ UNCHANGED outsideExport

\* lines 134-152, an iteration that starts a conversation
ScanNew ==
  /\ pc = "scan"
  /\ idx <= Len(messages)
  /\ isNewConv(conversations, currentConv, messages[idx])
  /\ conversations' =
       Append(conversations, addToConv(newConversation(messages[idx]), messages[idx]))
  /\ currentConv' = Len(conversations) + 1
  /\ idx' = idx + 1
  /\ UNCHANGED <<fetched, extraArgs, messages, pc>>
  /\ UNCHANGED outsideExport

ScanAppendToFirst ==
  /\ pc = "scan"
  /\ idx <= Len(messages)
  /\ ~isNewConv(conversations, currentConv, messages[idx])
  /\ conversations' = [conversations EXCEPT ![1] = addToConv(@, messages[idx])]
  /\ idx' = idx + 1
  /\ UNCHANGED <<fetched, extraArgs, messages, currentConv, pc>>
  /\ UNCHANGED outsideExport

\* lines 134-152, an iteration that extends the current conversation
ScanAppend ==
  /\ pc = "scan"
  /\ idx <= Len(messages)
  /\ ~isNewConv(conversations, currentConv, messages[idx])
  /\ conversations' =
       [conversations EXCEPT ![currentConv] = addToConv(@, messages[idx])]
  /\ idx' = idx + 1
  /\ UNCHANGED <<fetched, extraArgs, messages, currentConv, pc>>
  /\ UNCHANGED outsideExport

\* lines 154-160: the sets become arrays and the conversations are returned
GroupReturn ==
  /\ pc = "scan"
  /\ idx > Len(messages)
  /\ conversations' = [c \in 1..Len(conversations) |-> convertSets(conversations[c])]
  /\ pc' = "done"
  /\ UNCHANGED <<fetched, extraArgs, messages, currentConv, idx>>
  /\ UNCHANGED outsideExport

----------------------------------------------------------------------------
(* Rendering and archiving: exportChannelToMarkdown lines 102-123,         *)
(* exportAndArchive lines 282-302 and uploadToNotion, for one channel with *)
(* AUTO_CLEAR_MESSAGES unset.                                              *)

MaxRuns == 2

ChannelName == "general"

\* lines 103-120: what a conversation contributes to the markdown
renderedSection(conv) ==
  [title |-> conv.title,
   tags |-> conv.tags,
   participants |-> conv.participants,
   entries |-> [k \in 1..Len(conv.messages) |->
                  [author |-> conv.messages[k].author,
                   timestamp |-> conv.messages[k].timestamp,
                   content |-> conv.messages[k].content]]]

\* lines 165-227: the page notion.pages.create is asked to store
archivePage(conv, channelName) ==
  [title |-> conv.title,
   channel |-> channelName,
   tags |-> conv.tags,
   participants |-> conv.participants,
   messageCount |-> Len(conv.messages),
   dateStart |-> conv.messages[1].timestamp,
   dateEnd |-> conv.messages[Len(conv.messages)].timestamp,
   blocks |-> [k \in 1..Len(conv.messages) |->
                 [author |-> conv.messages[k].author,
                  timestamp |-> conv.messages[k].timestamp,
                  content |-> conv.messages[k].content]]]

\* lines 102-121, one iteration
RenderConversation ==
  /\ pc \in {"done", "render"}
  /\ Len(rendered) < Len(conversations)
  /\ rendered' = Append(rendered, renderedSection(conversations[Len(rendered) + 1]))
  /\ pc' = "render"
  /\ UNCHANGED <<fetched, extraArgs, messages, conversations, currentConv, idx>>
  /\ UNCHANGED <<uploaded, archive, runs>>
  /\ UNCHANGED outsideArchive

\* lines 123 and 280-286: the export returns and the markdown is written
ExportReturn ==
  /\ pc \in {"done", "render"}
  /\ Len(rendered) = Len(conversations)
  /\ pc' = "write"
  /\ UNCHANGED <<fetched, extraArgs, messages, conversations, currentConv, idx>>
  /\ UNCHANGED archiveVars
  /\ UNCHANGED outsideArchive

\* lines 285-292: mkdir and writeFile resolve
WriteFileOk ==
  /\ pc = "write"
  /\ pc' = "upload"
  /\ UNCHANGED <<fetched, extraArgs, messages, conversations, currentConv, idx>>
  /\ UNCHANGED archiveVars
  /\ UNCHANGED outsideArchive

\* lines 285-286, 304-306: mkdir or writeFile rejects
WriteFileFail ==
  /\ pc = "write"
  /\ pc' = "finished"
  /\ UNCHANGED <<fetched, extraArgs, messages, conversations, currentConv, idx>>
  /\ UNCHANGED archiveVars
  /\ UNCHANGED outsideArchive

\* lines 291-295 and 200-229: notion.pages.create resolves
UploadOk ==
  /\ pc = "upload"
  /\ uploaded < Len(conversations)
  /\ archive' = Append(archive, archivePage(conversations[uploaded + 1], ChannelName))
  /\ uploaded' = uploaded + 1
  /\ UNCHANGED <<fetched, extraArgs, messages, conversations, currentConv, idx, pc>>
  /\ UNCHANGED <<rendered, runs>>
  /\ UNCHANGED outsideArchive

\* lines 200, 292, 304-306: notion.pages.create rejects
UploadFail ==
  /\ pc = "upload"
  /\ uploaded < Len(conversations)
  /\ pc' = "finished"
  /\ UNCHANGED <<fetched, extraArgs, messages, conversations, currentConv, idx>>
  /\ UNCHANGED archiveVars
  /\ UNCHANGED outsideArchive

\* lines 291-309: every conversation is uploaded
UploadsDone ==
  /\ pc = "upload"
  /\ uploaded = Len(conversations)
  /\ pc' = "finished"
  /\ UNCHANGED <<fetched, extraArgs, messages, conversations, currentConv, idx>>
  /\ UNCHANGED archiveVars
  /\ UNCHANGED outsideArchive

\* lines 316-331 and 57-90: a further run, by the weekly cron or a manual
\* !export, over the same channel and the same message window; its locals
\* are fresh, the archive database is not
ExportAgain ==
  /\ pc = "finished"
  /\ runs < MaxRuns
  /\ runs' = runs + 1
  /\ messages' = fetched
  /\ conversations' = <<>>
  /\ currentConv' = 0
  /\ idx' = 0
  /\ rendered' = <<>>
  /\ uploaded' = 0
  /\ pc' = "group"
  /\ UNCHANGED <<fetched, extraArgs, archive>>
  /\ UNCHANGED outsideArchive

ArchivePosts ==
  { [author |-> "alice", content |-> DeployFix],
    [author |-> "bob",   content |-> EmptyText] }

ArchivePages == PagesOver(ArchivePosts, {0, Minutes(60) + 1}, MaxLen)

----------------------------------------------------------------------------
(* The channel and the fetch loop of exportChannelToMarkdown, lines 57-90.  *)
(* A message id is a snowflake and createdAt is read off the id, so the ids *)
(* of a history ascend with createdAt.                                      *)

MaxHistory == 4

\* limit: 100 of lines 68 and 245, scaled down
PageLimit == 2

ChannelTimes == {0, Minutes(31), Minutes(31) + 1}

DateLimits == {0, Minutes(31), Minutes(31) + 2}

\* the k-th message of a history: its author and its text
poster(k) ==
  IF k % 2 = 1 THEN [author |-> "alice", content |-> DeployFix]
               ELSE [author |-> "bob", content |-> EmptyText]

\* histories of n messages with the messages at the positions in pins pinned
HistoriesOf(n, pins) ==
  { [k \in 1..n |->
       [id |-> k, author |-> poster(k).author, content |-> poster(k).content,
        createdAt |-> ts[k], pinned |-> k \in pins]] :
    ts \in {t \in [1..n -> ChannelTimes] :
              \A i \in 1..n, j \in 1..n : i < j => t[i] <= t[j]} }

\* channel histories without pinned messages
Histories == UNION {HistoriesOf(n, {}) : n \in 0..MaxHistory}

\* channel histories with any of their messages pinned
PinnedHistories ==
  UNION {HistoriesOf(n, pins) : n \in 0..MaxHistory, pins \in SUBSET (1..MaxHistory)}

\* channel.messages.fetch({ limit, before }): the newest `limit` messages
\* still in the channel with an id below `before`, newest first
fetchPage(chan, gone, before, limit) ==
  LET avail == SelectSeq(chan, LAMBDA m :
                 m.id \notin gone /\ (before = Undefined \/ m.id < before))
      n == Min(limit, Len(avail))
  IN  [k \in 1..n |-> avail[Len(avail) - k + 1]]

isOlderOrEqual(msg, limit) == msg.createdAt <= limit

\* lines 75, 89 and 251: msg.createdAt < dateLimit
isOlder(msg, limit) == msg.createdAt < limit

\* lines 74-86: the messages of a page that are pushed, which are the ones
\* before the first message older than the limit
pushedOf(page, limit) ==
  LET old == {k \in 1..Len(page) : isOlder(page[k], limit)}
      n == IF old = {} THEN Len(page)
           ELSE (CHOOSE k \in old : \A q \in old : k <= q) - 1
  IN  [k \in 1..n |-> exportedMessage(page[k])]

\* lines 72 and 89: the two exits of the while loop
loopExits(page, limit) ==
  IF page = <<>> THEN TRUE ELSE isOlder(page[Len(page)], limit)

\* lines 57-64: the locals of the call
FetchStart ==
  /\ pc = "fetch"
  /\ dateLimit' \in DateLimits
  /\ lastId' = Undefined
  /\ messages' = <<>>
  /\ pc' = "fetching"
  /\ UNCHANGED <<fetched, extraArgs, conversations, currentConv, idx>>
  /\ UNCHANGED <<channel, removed, clear>>
  /\ UNCHANGED <<calendarVars, serviceVars, archiveVars, peer>>

\* lines 66-90: a fetch resolves; the page is pushed up to its first older
\* message, and the loop exits or moves the cursor to the page's last id
FetchPageOk ==
  /\ pc = "fetching"
  /\ LET page == fetchPage(channel, removed, lastId, PageLimit)
     IN  /\ messages' = messages \o pushedOf(page, dateLimit)
         /\ lastId' = IF page = <<>> THEN lastId ELSE page[Len(page)].id
         /\ IF loopExits(page, dateLimit)
              THEN pc' = "group" /\ fetched' = messages'
              ELSE pc' = "fetching" /\ UNCHANGED fetched
  /\ UNCHANGED <<extraArgs, conversations, currentConv, idx>>
  /\ UNCHANGED <<channel, removed, dateLimit, clear>>
  /\ UNCHANGED <<calendarVars, serviceVars, archiveVars, peer>>

\* lines 67 and 304-306: a fetch rejects; the exception leaves
\* exportChannelToMarkdown and exportAndArchive logs it
FetchReject ==
  /\ pc = "fetching"
  /\ pc' = "finished"
  /\ UNCHANGED <<fetched, extraArgs, messages, conversations, currentConv, idx>>
  /\ UNCHANGED channelVars
  /\ UNCHANGED <<calendarVars, serviceVars, archiveVars, peer>>

----------------------------------------------------------------------------
(* clearOldMessages, lines 233-268.                                         *)

shouldDeleteIgnoringPin(msg, limit) == isOlder(msg, limit)

\* line 251: msg.createdAt < dateLimit && !msg.pinned
shouldDelete(msg, limit) == isOlder(msg, limit) /\ ~msg.pinned

\* lines 234-240: the locals of the call
ClearStart ==
  /\ clear.cpc = "idle"
  /\ \E d \in DateLimits :
       clear' = [IdleClear EXCEPT !.cpc = "fetch", !.dateLimit = d]
  /\ UNCHANGED <<channel, removed, dateLimit, lastId>>
  /\ UNCHANGED <<groupingVars, calendarVars, serviceVars, archiveVars, peer>>

\* lines 243-248 and 264-267: a fetch resolves; an empty page ends the loop
\* and the count is returned
ClearFetchOk ==
  /\ clear.cpc = "fetch"
  /\ LET page == fetchPage(channel, removed, clear.lastId, PageLimit)
     IN  clear' = IF page = <<>>
                    THEN [clear EXCEPT !.page = page, !.k = 0, !.cpc = "returned"]
                    ELSE [clear EXCEPT !.page = page, !.k = 1, !.cpc = "page"]
  /\ UNCHANGED <<channel, removed, dateLimit, lastId>>
  /\ UNCHANGED <<groupingVars, calendarVars, serviceVars, archiveVars, peer>>

\* line 243: a fetch rejects and the exception leaves clearOldMessages
ClearFetchReject ==
  /\ clear.cpc = "fetch"
  /\ clear' = [clear EXCEPT !.cpc = "threw"]
  /\ UNCHANGED <<channel, removed, dateLimit, lastId>>
  /\ UNCHANGED <<groupingVars, calendarVars, serviceVars, archiveVars, peer>>

\* lines 250-251: a message of the page that is not to be deleted
ClearSkip ==
  /\ clear.cpc = "page"
  /\ clear.k <= Len(clear.page)
  /\ ~shouldDelete(clear.page[clear.k], clear.dateLimit)
  /\ clear' = [clear EXCEPT !.k = @ + 1]
  /\ UNCHANGED <<channel, removed, dateLimit, lastId>>
  /\ UNCHANGED <<groupingVars, calendarVars, serviceVars, archiveVars, peer>>

\* lines 252-256: msg.delete() resolves, the count goes up, the pause passes
ClearDeleteOk ==
  /\ clear.cpc = "page"
  /\ clear.k <= Len(clear.page)
  /\ shouldDelete(clear.page[clear.k], clear.dateLimit)
  /\ removed' = removed \cup {clear.page[clear.k].id}
  /\ clear' = [clear EXCEPT !.deleted = @ + 1, !.k = @ + 1]
  /\ UNCHANGED <<channel, dateLimit, lastId>>
  /\ UNCHANGED <<groupingVars, calendarVars, serviceVars, archiveVars, peer>>

\* lines 253 and 257-259: msg.delete() rejects; the failure is logged and
\* the loop goes on with the next message
ClearDeleteFail ==
  /\ clear.cpc = "page"
  /\ clear.k <= Len(clear.page)
  /\ shouldDelete(clear.page[clear.k], clear.dateLimit)
  /\ clear' = [clear EXCEPT !.errors = Append(@, clear.page[clear.k].id),
                            !.k = @ + 1]
  /\ UNCHANGED <<channel, removed, dateLimit, lastId>>
  /\ UNCHANGED <<groupingVars, calendarVars, serviceVars, archiveVars, peer>>

\* line 263: the cursor moves to the last message of the page
ClearPageEnd ==
  /\ clear.cpc = "page"
  /\ clear.k > Len(clear.page)
  /\ clear' = [clear EXCEPT !.lastId = clear.page[Len(clear.page)].id,
                            !.cpc = "fetch"]
  /\ UNCHANGED <<channel, removed, dateLimit, lastId>>
  /\ UNCHANGED <<groupingVars, calendarVars, serviceVars, archiveVars, peer>>

----------------------------------------------------------------------------
(* A second run of exportChannelToMarkdown over the same channel, started   *)
(* by the cron job or by !export while the first is in flight.  JavaScript  *)
(* runs the code between two awaits without interruption: a step of the     *)
(* second run is the completion of one of its awaits with the synchronous   *)
(* code behind it, and is taken while the first run waits on an await.      *)

RECURSIVE scanAll(_, _, _, _)
\* lines 134-160: the loop over the sorted messages and the conversion
scanAll(convs, cur, msgs, k) ==
  IF k > Len(msgs)
    THEN [c \in 1..Len(convs) |-> convertSets(convs[c])]
    ELSE IF isNewConv(convs, cur, msgs[k])
      THEN scanAll(Append(convs, addToConv(newConversation(msgs[k]), msgs[k])),
                   Len(convs) + 1, msgs, k + 1)
      ELSE scanAll([convs EXCEPT ![cur] = addToConv(@, msgs[k])], cur, msgs, k + 1)

\* the first run is waiting: on a fetch, on the file write, or it is over
atAwait == pc \in {"fetch", "fetching", "write", "finished"}

\* lines 57-64
PeerFetchStart ==
  /\ atAwait
  /\ peer.pc = "fetch"
  /\ \E d \in DateLimits :
       peer' = [peer EXCEPT !.dateLimit = d, !.lastId = Undefined,
                            !.messages = <<>>, !.pc = "fetching"]
  /\ UNCHANGED <<groupingVars, calendarVars, serviceVars, archiveVars, channelVars>>

PeerFetchPageOkSharedArray ==
  /\ atAwait
  /\ peer.pc = "fetching"
  /\ LET page == fetchPage(channel, removed, peer.lastId, PageLimit)
         exits == loopExits(page, peer.dateLimit)
     IN  peer' = [peer EXCEPT
                    !.messages = messages \o pushedOf(page, peer.dateLimit),
                    !.lastId = IF page = <<>> THEN @ ELSE page[Len(page)].id,
                    !.pc = IF exits THEN "group" ELSE "fetching"]
  /\ UNCHANGED <<groupingVars, calendarVars, serviceVars, archiveVars, channelVars>>

\* lines 66-90: a fetch of the second run resolves
PeerFetchPageOk ==
  /\ atAwait
  /\ peer.pc = "fetching"
  /\ LET page == fetchPage(channel, removed, peer.lastId, PageLimit)
         exits == loopExits(page, peer.dateLimit)
     IN  peer' = [peer EXCEPT
                    !.messages = @ \o pushedOf(page, peer.dateLimit),
                    !.lastId = IF page = <<>> THEN @ ELSE page[Len(page)].id,
                    !.pc = IF exits THEN "group" ELSE "fetching"]
  /\ UNCHANGED <<groupingVars, calendarVars, serviceVars, archiveVars, channelVars>>

\* line 67: a fetch of the second run rejects
PeerFetchReject ==
  /\ atAwait
  /\ peer.pc = "fetching"
  /\ peer' = [peer EXCEPT !.pc = "threw"]
  /\ UNCHANGED <<groupingVars, calendarVars, serviceVars, archiveVars, channelVars>>

\* lines 93-123: after the last fetch the second run groups its messages
\* and renders them without a further await
PeerGroup ==
  /\ atAwait
  /\ peer.pc = "group"
  /\ \E sorted \in sortOutcomes(peer.messages) :
       peer' = [peer EXCEPT !.messages = sorted,
                            !.conversations = scanAll(<<>>, 0, sorted, 1),
                            !.pc = "done"]
  /\ UNCHANGED <<groupingVars, calendarVars, serviceVars, archiveVars, channelVars>>

Next ==
  \/ ExportPage(Pages)
  \/ GroupEnter({<<>>})
  \/ ScanNew
  \/ ScanAppend
  \/ GroupReturn

Spec == Init /\ [][Next]_vars

\* classification alone: one message per run, drawn from ClassifyTexts
NextClassify == ExportPage(ClassifyPages)

SpecClassify == Init /\ [][NextClassify]_vars

\* groupIntoConversations under an arbitrary caller
NextCall ==
  \/ ExportPage(CallPages)
  \/ GroupEnter(GapArgs)
  \/ ScanNew
  \/ ScanAppend
  \/ GroupReturn

SpecCall == Init /\ [][NextCall]_vars

\* the export run through rendering and archiving, and its repetition
NextArchive ==
  \/ ExportPage(ArchivePages)
  \/ GroupEnter({<<>>})
  \/ ScanNew
  \/ ScanAppend
  \/ GroupReturn
  \/ RenderConversation
  \/ ExportReturn
  \/ WriteFileOk
  \/ WriteFileFail
  \/ UploadOk
  \/ UploadFail
  \/ UploadsDone
  \/ ExportAgain

SpecArchive == Init /\ [][NextArchive]_vars

\* the fetch loop over a channel; an awaited fetch settles
InitFetch ==
  /\ InitExport
  /\ InitCalendar
  /\ InitArchive
  /\ InitPeer
  /\ InitChannel(Histories)
  /\ InitHook
  /\ InitJob({"unset"})

NextFetch ==
  \/ FetchStart
  \/ FetchPageOk
  \/ FetchReject

SpecFetch == InitFetch /\ [][NextFetch]_vars /\ WF_vars(NextFetch)

\* clearOldMessages over a channel with pinned messages
InitClear ==
  /\ InitExport
  /\ InitCalendar
  /\ InitArchive
  /\ InitPeer
  /\ InitChannel(PinnedHistories)
  /\ InitHook
  /\ InitJob({"unset"})

NextClear ==
  \/ ClearStart
  \/ ClearFetchOk
  \/ ClearFetchReject
  \/ ClearSkip
  \/ ClearDeleteOk
  \/ ClearDeleteFail
  \/ ClearPageEnd

SpecClear == InitClear /\ [][NextClear]_vars

\* two export runs over one channel
NextRuns ==
  \/ FetchStart
  \/ FetchPageOk
  \/ FetchReject
  \/ GroupEnter({<<>>})
  \/ ScanNew
  \/ ScanAppend
  \/ GroupReturn
  \/ RenderConversation
  \/ ExportReturn
  \/ PeerFetchStart
  \/ PeerFetchPageOk
  \/ PeerFetchReject
  \/ PeerGroup

SpecRuns == InitFetch /\ [][NextRuns]_vars

\* the webhook endpoint under requests of every kind
NextHook ==
  \E r \in Slots :
    \/ HookParseFail(r)
    \/ HookUnauthorized(r)
    \/ HookFormatFail(r)
    \/ HookForward(r)
    \/ HookPostOk(r)
    \/ HookPostFail(r)

SpecHook == Init /\ [][NextHook]_vars

\* a run of exportAndArchive under every setting of AUTO_CLEAR_MESSAGES;
\* an awaited call settles
InitJobs ==
  /\ InitExport
  /\ InitCalendar
  /\ InitArchive
  /\ InitPeer
  /\ InitChannel({<<>>})
  /\ InitHook
  /\ InitJob(EnvValues)

NextJob ==
  \/ JobStart
  \/ JobChannelOk
  \/ JobChannelSkipped
  \/ JobChannelFail
  \/ JobExportOk
  \/ JobExportFail
  \/ JobMkdirOk
  \/ JobMkdirFail
  \/ JobWriteOk
  \/ JobWriteFail
  \/ JobUploadOk
  \/ JobUploadFail
  \/ JobClearOk
  \/ JobClearFail

SpecJob == InitJobs /\ [][NextJob]_vars /\ WF_vars(NextJob)

\* the calendar sync service
NextCalendar ==
  \E p \in Passes :
    \/ CalStart(p)
    \/ CalListOk(p)
    \/ CalListFail(p)
    \/ CalQueryOk(p)
    \/ CalQueryFail(p)
    \/ CalUpdateOk(p)
    \/ CalCreateOk(p)
    \/ CalWriteFail(p)
    \/ CalNotifyCreatedOk(p)
    \/ CalNotifyCreatedFail(p)
    \/ CalRemindOk(p)
    \/ CalRemindFail(p)
    \/ CalErrorPostOk(p)
    \/ CalErrorPostFail(p)

SpecCalendar == Init /\ [][NextCalendar]_vars

----------------------------------------------------------------------------
(* Vocabulary of the properties. *)

RECURSIVE allMessages(_)
\* the messages lists of the groups, concatenated in output order
allMessages(convs) ==
  IF convs = <<>> THEN <<>>
  ELSE allMessages(SubSeq(convs, 1, Len(convs) - 1)) \o convs[Len(convs)].messages

NoDuplicates(s) == \A i, j \in 1..Len(s) : i # j => s[i] # s[j]

PositionIn(s, x) == CHOOSE i \in 1..Len(s) : s[i] = x

Ascending(s) ==
  \A i, j \in 1..Len(s) : i < j => s[i].timestamp <= s[j].timestamp

Returned == pc = "done"

----------------------------------------------------------------------------
\* C1: the groups returned by groupIntoConversations, concatenated in output
\* order, hold every input message exactly once, and are the input ordered
\* ascending by timestamp (messages with equal timestamps keep their input
\* order): nothing is lost, duplicated or otherwise reordered.
GroupsConcatenateToSortedInput ==
  Returned =>
    LET out == allMessages(conversations)
    IN  /\ Len(out) = Len(fetched)
        /\ \A k \in 1..Len(fetched) :
             Cardinality({j \in 1..Len(out) : out[j] = fetched[k]}) = 1
        /\ Ascending(out)
        /\ \A i, j \in 1..Len(out) :
             (i < j /\ out[i].timestamp = out[j].timestamp)
               => PositionIn(fetched, out[i]) < PositionIn(fetched, out[j])

\* an unsorted input with a repeated timestamp, returned as several groups
GroupsConcatenateWitness ==
  /\ Returned
  /\ Len(conversations) >= 2
  /\ ~Ascending(fetched)
  /\ \E i, j \in 1..Len(fetched) :
       i # j /\ fetched[i].timestamp = fetched[j].timestamp

----------------------------------------------------------------------------
\* C2: within a returned group every message but the first is at most 30
\* minutes after its predecessor, and the first message of every group but
\* the first is strictly more than 30 minutes after the last message of the
\* preceding group; gaps of exactly 30 minutes and of zero stay inside a
\* group.  Timestamps [t0, t0+5m, t0+40m, t0+41m] give the groups
\* {item0, item1} and {item2, item3}.
GapsRespectThreshold ==
  Returned =>
    /\ \A c \in 1..Len(conversations) :
         \A k \in 2..Len(conversations[c].messages) :
           LET gap == conversations[c].messages[k].timestamp
                        - conversations[c].messages[k - 1].timestamp
           IN  gap >= 0 /\ gap <= Minutes(30)
    /\ \A c \in 2..Len(conversations) :
         LET prev == conversations[c - 1].messages
             gap  == conversations[c].messages[1].timestamp
                       - prev[Len(prev)].timestamp
         IN  gap > Minutes(30)
    /\ \A t0 \in {0, 1000} :
         (/\ Len(fetched) = 4
          /\ {fetched[k].timestamp : k \in 1..4}
               = {t0, t0 + Minutes(5), t0 + Minutes(40), t0 + Minutes(41)})
           => /\ Len(conversations) = 2
              /\ [k \in 1..2 |-> conversations[1].messages[k].timestamp]
                   = <<t0, t0 + Minutes(5)>>
              /\ [k \in 1..2 |-> conversations[2].messages[k].timestamp]
                   = <<t0 + Minutes(40), t0 + Minutes(41)>>

\* two groups, the first of which holds a gap of exactly 30 minutes
GapsThresholdWitness ==
  /\ Returned
  /\ Len(conversations) = 2
  /\ \E k \in 2..Len(conversations[1].messages) :
       conversations[1].messages[k].timestamp
         - conversations[1].messages[k - 1].timestamp = Minutes(30)

----------------------------------------------------------------------------
\* C6: in every returned group, participants is exactly the set of distinct
\* authors of the group's messages and tags is exactly the set of distinct
\* labels classifyMessage gives the single messages; neither list repeats an
\* element.
ParticipantsAndTagsAreDistinctSets ==
  Returned =>
    \A c \in 1..Len(conversations) :
      LET conv == conversations[c]
      IN  /\ Range(conv.participants) = {m.author : m \in Range(conv.messages)}
          /\ Range(conv.tags) =
               {classifyMessage(m.content) : m \in Range(conv.messages)}
          /\ NoDuplicates(conv.participants)
          /\ NoDuplicates(conv.tags)

\* a group of three messages by two authors carrying two labels
ParticipantsAndTagsWitness ==
  /\ Returned
  /\ \E c \in 1..Len(conversations) :
       /\ Len(conversations[c].messages) = 3
       /\ Len(conversations[c].participants) = 2
       /\ Len(conversations[c].tags) = 2

----------------------------------------------------------------------------
\* C7: no group is ever empty; an empty input returns no group, and an input
\* of one message returns one group holding that message, with its author
\* as the only participant and its classification as the only tag.
GroupsAreNonEmpty ==
  /\ \A c \in 1..Len(conversations) : Len(conversations[c].messages) >= 1
  /\ Returned =>
       /\ fetched = <<>> => conversations = <<>>
       /\ Len(fetched) = 1 =>
            /\ Len(conversations) = 1
            /\ conversations[1].messages = fetched
            /\ conversations[1].participants = <<fetched[1].author>>
            /\ conversations[1].tags = <<classifyMessage(fetched[1].content)>>

\* the single-message input has been grouped
SingleMessageWitness ==
  Returned /\ Len(fetched) = 1 /\ Len(conversations) = 1

----------------------------------------------------------------------------
\* C8: the title of a group is the first 50 code units of its first
\* message's text (all of it when shorter) followed by "...", whatever the
\* length of the text, and stays the same while the group grows.
TitleMatches(conv) ==
  LET text == conv.messages[1].content
      n    == IF Len(text) < 50 THEN Len(text) ELSE 50
  IN  /\ Len(conv.title) = n + 3
      /\ \A i \in 1..n : conv.title[i] = text[i]
      /\ \A i \in (n + 1)..(n + 3) : conv.title[i] = "."

TitleIsPrefixPlusEllipsis ==
  /\ [](\A c \in 1..Len(conversations) : TitleMatches(conversations[c]))
  /\ [][\A c \in 1..Len(conversations) :
          /\ c <= Len(conversations')
          /\ conversations'[c].title = conversations[c].title]_vars

\* a group titled by a text longer than 50 code units has grown, next to a
\* group titled by a shorter text
TitleWitness ==
  /\ \E c \in 1..Len(conversations) :
       /\ Len(conversations[c].messages[1].content) > 50
       /\ Len(conversations[c].messages) >= 2
  /\ \E c \in 1..Len(conversations) :
       Len(conversations[c].messages[1].content) < 50

----------------------------------------------------------------------------
\* the rules of which some keyword occurs in the lower-cased text
MatchingRules(content) ==
  { r \in 1..Len(TAG_RULES) :
      \E k \in Range(TAG_RULES[r].keywords) : includes(toLowerCase(content), k) }

Earliest(rs) == CHOOSE r \in rs : \A q \in rs : r <= q

\* C3: the tag of a message is the label of the earliest rule of TAG_RULES,
\* in table order, of which some keyword is a substring of the lower-cased
\* text, also when later rules match.
FirstMatchingRuleWins ==
  \A m \in Range(messages) :
    MatchingRules(m.content) # {}
      => m.tag = TAG_RULES[Earliest(MatchingRules(m.content))].tag

\* a text matched by two rules, the later rule's keyword standing first
FirstMatchWitness ==
  \E m \in Range(messages) :
    /\ Cardinality(MatchingRules(m.content)) >= 2
    /\ m.content = TAG_RULES[3].keywords[1] \o <<" ">> \o TAG_RULES[2].keywords[1]
    /\ m.tag = TAG_RULES[2].tag

----------------------------------------------------------------------------
\* C4: classifyMessage gives every text a label, the empty text included,
\* and the label is "Uncategorized" exactly when no keyword of any rule is a
\* substring of the lower-cased text.
ClassifyIsTotal ==
  \A m \in Range(messages) :
    /\ m.tag \in {TAG_RULES[r].tag : r \in 1..Len(TAG_RULES)} \cup {"Uncategorized"}
    /\ m.tag = "Uncategorized" <=> MatchingRules(m.content) = {}

\* the empty text has been classified
ClassifyEmptyWitness ==
  \E m \in Range(messages) : m.content = <<>> /\ m.tag = "Uncategorized"

----------------------------------------------------------------------------
\* C5: a text that contains a keyword of a rule in any letter case matches
\* that rule: its tag is that rule's label or the label of an earlier rule.
KeywordsMatchInAnyCase ==
  \A m \in Range(messages) :
    \A r \in 1..Len(TAG_RULES) :
      \A k \in Range(TAG_RULES[r].keywords) :
        includes(toLowerCase(m.content), toLowerCase(k))
          => m.tag \in {TAG_RULES[q].tag : q \in 1..r}

----------------------------------------------------------------------------
\* the positions of the sorted messages at which a returned group starts
GroupStarts ==
  { Len(allMessages(SubSeq(conversations, 1, c - 1))) + 1 :
      c \in 1..Len(conversations) }

GapExceeds(k, g) ==
  /\ isDefined(messages[k].timestamp)
  /\ isDefined(messages[k - 1].timestamp)
  /\ messages[k].timestamp - messages[k - 1].timestamp > g

\* C9 as stated: the gap threshold is the value the caller supplies, 30
\* minutes when it supplies none.
CallerThresholdDecidesGroups ==
  Returned =>
    \A k \in 2..Len(messages) :
      k \in GroupStarts
        <=> GapExceeds(k, IF extraArgs = <<>> THEN Minutes(30) ELSE extraArgs[1])

\* C9, amended: the gap threshold is the fixed 30 minutes, whatever the
\* caller supplies: a group starts exactly at the first message and at the
\* messages more than 30 minutes after their predecessor.
FixedThresholdDecidesGroups ==
  Returned =>
    /\ \A k \in 2..Len(messages) : k \in GroupStarts <=> GapExceeds(k, Minutes(30))
    /\ messages # <<>> => 1 \in GroupStarts

\* called with a 5 minute threshold, a gap of 30 minutes stayed inside a group
FixedThresholdWitness ==
  /\ Returned
  /\ extraArgs = <<Minutes(5)>>
  /\ Len(conversations) >= 2
  /\ \E k \in 2..Len(messages) : k \notin GroupStarts /\ GapExceeds(k, Minutes(5))

----------------------------------------------------------------------------
Malformed(list) ==
  \/ \E i \in 1..Len(list) : ~isDefined(list[i].timestamp)
  \/ \E i, j \in 1..Len(list) :
       /\ i < j
       /\ isDefined(list[i].timestamp) /\ isDefined(list[j].timestamp)
       /\ list[i].timestamp > list[j].timestamp

\* C10 as stated: a list that is not sorted ascending, or holds a message
\* without timestamp, is rejected: the scan never runs and no group exists.
MalformedInputFailsFast ==
  Malformed(fetched) => (pc \notin {"scan", "done"} /\ conversations = <<>>)

\* C10, amended: such a list is not rejected.  groupIntoConversations sorts
\* it and returns groups that hold every message exactly once; when every
\* message has a timestamp the groups are in ascending order of timestamp.
MalformedInputIsSegmented ==
  (Returned /\ Malformed(fetched)) =>
    LET out == allMessages(conversations)
    IN  /\ conversations # <<>>
        /\ Len(out) = Len(fetched)
        /\ \A k \in 1..Len(fetched) :
             Cardinality({j \in 1..Len(out) : out[j] = fetched[k]}) = 1
        /\ (\A k \in 1..Len(fetched) : isDefined(fetched[k].timestamp))
             => Ascending(out)

\* a list that holds a message without timestamp and two messages out of
\* order has been segmented
MalformedInputWitness ==
  /\ Returned
  /\ conversations # <<>>
  /\ \E k \in 1..Len(fetched) : ~isDefined(fetched[k].timestamp)
  /\ \E i, j \in 1..Len(fetched) :
       /\ i < j
       /\ isDefined(fetched[i].timestamp) /\ isDefined(fetched[j].timestamp)
       /\ fetched[i].timestamp > fetched[j].timestamp

----------------------------------------------------------------------------
\* C11: the Notion calendar database holds at most one page per Google
\* Event ID in every state the sync passes can reach, overlapping passes
\* included: a page is created only when none with that event id exists.
AtMostOnePagePerEvent ==
  \A e \in EventIds : notionPages[e] <= 1

----------------------------------------------------------------------------
\* C13: a 'created' notification is posted for an event only when the upsert
\* of that event in the same pass reported 'created', and each event id
\* receives at most one 'created' notification.
CreatedNoticeAtMostOnce ==
  /\ \A post \in discordPosts : post.kind = "created" => post.action = "created"
  /\ \A e \in EventIds :
       Cardinality({post \in discordPosts : post.kind = "created" /\ post.id = e}) <= 1

----------------------------------------------------------------------------
\* C14: each calendar event receives at most one reminder notification, over
\* any passes in which it starts within the next hour, overlapping ones
\* included.
ReminderAtMostOnce ==
  \A e \in EventIds :
    Cardinality({post \in discordPosts : post.kind = "reminder" /\ post.id = e}) <= 1

----------------------------------------------------------------------------
\* C18: when a pass whose listing succeeded has ended, every listed event
\* that starts within the next hour has its reminder, from this pass or an
\* earlier one, unless the post of its own reminder failed: failures that
\* concern other events do not matter.
UpcomingEventsAreReminded ==
  \A p \in Passes :
    (pass[p].cpc = "end" /\ pass[p].listed) =>
      \A k \in 1..Len(pass[p].events) :
        (pass[p].events[k].soon /\ pass[p].events[k].id \notin pass[p].ownFailed)
          => reminderKey(pass[p].events[k].id) \in syncedEvents

----------------------------------------------------------------------------
\* C12: handing the same conversation group to the archive sink more than
\* once leaves one record for it: no two pages of the Notion archive
\* database are records of the same group.
ArchiveHoldsOneRecordPerGroup ==
  \A i, j \in 1..Len(archive) : i # j => archive[i] # archive[j]

----------------------------------------------------------------------------
\* C15: the participants and tags that the scan has accumulated for a group,
\* after every message and at the return, are as sets what one pass over
\* the group's messages collects: the distinct authors and the distinct
\* per-message labels.
IncrementalEqualsPostHoc ==
  \A c \in 1..Len(conversations) :
    LET conv == conversations[c]
        authors == {conv.messages[k].author : k \in 1..Len(conv.messages)}
        labels  == {conv.messages[k].tag : k \in 1..Len(conv.messages)}
    IN  IF pc = "scan"
          THEN /\ Range(conv.participants.items) = authors
               /\ Range(conv.tags.items) = labels
          ELSE /\ Range(conv.participants) = authors
               /\ Range(conv.tags) = labels

\* in the middle of the scan, a group of two messages by two authors
IncrementalWitness ==
  /\ pc = "scan"
  /\ idx <= Len(messages)
  /\ \E c \in 1..Len(conversations) :
       /\ Len(conversations[c].messages) = 2
       /\ Len(conversations[c].participants.items) = 2
       /\ Len(conversations[c].tags.items) = 2

----------------------------------------------------------------------------
\* what a group holds, the sets of the scan read as the lists of their items
contentOf(conv, inScan) ==
  [title |-> conv.title,
   messages |-> conv.messages,
   participants |-> IF inScan THEN conv.participants.items ELSE conv.participants,
   tags |-> IF inScan THEN conv.tags.items ELSE conv.tags]

\* the scan has started a later group, or has reached the end of the input
Closed(c) == c < currentConv \/ pc # "scan" \/ idx > Len(messages)

\* C16: within a run, a closed group never changes in content; every
\* message is in its group and the scan is over before anything is
\* rendered or uploaded; and rendering, writing and uploading leave the
\* groups as they are.
ClosedGroupsNeverChange ==
  /\ [][runs' = runs =>
          \A c \in 1..Len(conversations) :
            Closed(c) =>
              /\ c <= Len(conversations')
              /\ contentOf(conversations'[c], pc' = "scan")
                   = contentOf(conversations[c], pc = "scan")]_vars
  /\ []((rendered # <<>> \/ uploaded > 0 \/ pc \in {"render", "write", "upload"})
          => /\ idx > Len(messages)
             /\ allMessages(conversations) = messages)
  /\ [][(pc \in {"done", "render", "write", "upload"} /\ runs' = runs)
          => conversations' = conversations]_vars

\* two groups have been rendered and one of them uploaded
ClosedGroupsWitness ==
  /\ pc = "upload"
  /\ Len(conversations) = 2
  /\ Len(rendered) = 2
  /\ uploaded = 1
  /\ Len(conversations[2].messages) = 2

----------------------------------------------------------------------------
\* the elements of a set of positions, ascending
inOrder(S) ==
  [n \in 1..Cardinality(S) |->
     CHOOSE k \in S : Cardinality({j \in S : j < k}) = n - 1]

\* the values of a list in the order of their first occurrence
distinctInOrder(seq) ==
  LET ord == inOrder({k \in 1..Len(seq) : \A j \in 1..(k - 1) : seq[j] # seq[k]})
  IN  [n \in 1..Len(ord) |-> seq[ord[n]]]

\* the groups of a sorted list of messages, read off the list as a whole:
\* it is cut before every message that follows its predecessor by more
\* than thirty minutes
groupsOf(sorted) ==
  LET ord == inOrder({k \in 1..Len(sorted) :
                IF k = 1 THEN TRUE
                ELSE sorted[k].timestamp - sorted[k - 1].timestamp > Minutes(30)})
  IN  [n \in 1..Len(ord) |->
         LET to == IF n < Len(ord) THEN ord[n + 1] - 1 ELSE Len(sorted)
             msgs == SubSeq(sorted, ord[n], to)
         IN  [title |-> substring(msgs[1].content, 0, 50) \o <<".", ".", ".">>,
              messages |-> msgs,
              participants |-> distinctInOrder([k \in 1..Len(msgs) |-> msgs[k].author]),
              tags |-> distinctInOrder([k \in 1..Len(msgs) |-> msgs[k].tag])]]

\* what a run that executes alone returns for the messages it fetched
aloneOutcomes(msgs) == {groupsOf(sorted) : sorted \in sortOutcomes(msgs)}

\* the messages of a history that are not older than the limit, newest
\* first, as exportChannelToMarkdown records them
windowOf(chan, limit) ==
  LET keep == SelectSeq(chan, LAMBDA m : ~(m.createdAt < limit))
  IN  [k \in 1..Len(keep) |-> exportedMessage(keep[Len(keep) - k + 1])]

\* C17: when two export runs over a channel interleave at their awaits,
\* the groups each run returns, with their tags and participants, are the
\* ones a run executing alone returns for the messages that run fetched.
RunsAreIndependent ==
  /\ pc \in {"done", "render", "write"}
       => conversations \in aloneOutcomes(windowOf(channel, dateLimit))
  /\ peer.pc = "done"
       => peer.conversations \in aloneOutcomes(windowOf(channel, peer.dateLimit))

\* the second run has returned two groups while the first run, called with
\* another date limit, is between two of its fetches
RunsInterleaveWitness ==
  /\ pc = "fetching"
  /\ lastId # Undefined
  /\ messages # <<>>
  /\ peer.pc = "done"
  /\ Len(peer.conversations) = 2
  /\ peer.dateLimit # dateLimit

----------------------------------------------------------------------------
\* C19: every run of the fetch loop ends; the loop is left only on an empty
\* page or on a page whose last message is older than the date limit; and
\* when it is left, every message of the channel that is not older than the
\* date limit has been collected exactly once and no older message has.
FetchLoopCollectsWindow ==
  /\ <>(pc \in {"group", "finished"})
  /\ [][(pc = "fetching" /\ pc' = "group") =>
          LET page == fetchPage(channel, removed, lastId, PageLimit)
          IN  IF page = <<>> THEN TRUE
              ELSE page[Len(page)].createdAt < dateLimit]_vars
  /\ [](pc = "group" =>
          /\ \A i \in 1..Len(channel) :
               Cardinality({k \in 1..Len(messages) : messages[k].id = channel[i].id})
                 = IF channel[i].createdAt < dateLimit THEN 0 ELSE 1
          /\ \A k \in 1..Len(messages) :
               \E i \in 1..Len(channel) : messages[k].id = channel[i].id)

\* the loop is over after more than one page, with older messages left out
FetchLoopWitness ==
  /\ pc = "group"
  /\ Len(messages) > PageLimit
  /\ Len(messages) < Len(channel)

----------------------------------------------------------------------------
\* C20: a message that clearOldMessages has deleted was older than the date
\* limit and not pinned, so every pinned and every recent message stays;
\* the count is the number of deletions that succeeded; the function
\* returns on an empty page, with nothing left below the cursor; and by
\* then every old unpinned message still in the channel is one whose
\* deletion failed, so that a failure has not kept the loop from the rest.
ClearDeletesOnlyOldUnpinned ==
  /\ \A i \in 1..Len(channel) :
       channel[i].id \in removed =>
         channel[i].createdAt < clear.dateLimit /\ ~channel[i].pinned
  /\ clear.deleted = Cardinality(removed)
  /\ clear.cpc = "returned" =>
       /\ clear.page = <<>>
       /\ fetchPage(channel, removed, clear.lastId, PageLimit) = <<>>
       /\ \A i \in 1..Len(channel) :
            ( /\ channel[i].createdAt < clear.dateLimit
              /\ ~channel[i].pinned
              /\ channel[i].id \notin removed )
              => channel[i].id \in Range(clear.errors)

\* a run has returned after a failed deletion followed by a successful one,
\* over a channel with an old pinned message and a recent one
ClearWitness ==
  /\ clear.cpc = "returned"
  /\ \E f \in Range(clear.errors) : \E r \in removed : r < f
  /\ \E i \in 1..Len(channel) :
       channel[i].pinned /\ channel[i].createdAt < clear.dateLimit
  /\ \E i \in 1..Len(channel) : ~(channel[i].createdAt < clear.dateLimit)

----------------------------------------------------------------------------
\* C21: clearOldMessages is called for a channel only when
\* AUTO_CLEAR_MESSAGES is 'true' and, in the same run, the channel was
\* exported, its file written and every one of its conversations uploaded;
\* a channel whose fetch, export, file write or upload failed is not cleared.
ClearOnlyAfterArchived ==
  \A c \in ChannelIds :
    LET ch == job.chans[c]
    IN  /\ ch.clearCalled =>
             /\ job.autoClear = "true"
             /\ ch.exported
             /\ ch.written
             /\ ch.uploads = ch.convs
        /\ ch.failedAt \in {"fetch", "export", "mkdir", "write", "upload"}
             => ~ch.clearCalled

\* one channel was cleared after its two uploads, another was left alone
\* after its second upload failed
ClearOnlyAfterArchivedWitness ==
  \E c \in ChannelIds, d \in ChannelIds :
    /\ job.chans[c].clearCalled
    /\ job.chans[c].uploads = 2
    /\ job.chans[d].failedAt = "upload"
    /\ job.chans[d].uploads = 1
    /\ ~job.chans[d].clearCalled

----------------------------------------------------------------------------
\* C22: a request whose x-notion-signature header is not the HMAC-SHA256 of
\* its body under NOTION_SECRET is answered with 401 and nothing is posted
\* to Discord for it; and a request gets at most one response, exactly one
\* once it is handled, which is 200, 401 or 500.
MismatchedSignatureIsRejected ==
  \A r \in Slots :
    LET h == hook[r]
    IN  /\ ( /\ h.req.body # "none"
              /\ h.req.signature.kind # "absent"
              /\ h.req.signature # hmac(NOTION_SECRET, stringify(h.req.payload)) )
             => /\ ~h.posted
                /\ h.pc = "done" => h.responses = <<401>>
        /\ Len(h.responses) <= 1
        /\ h.pc = "done" => Len(h.responses) = 1
        /\ \A k \in 1..Len(h.responses) : h.responses[k] \in {200, 401, 500}

----------------------------------------------------------------------------
\* C23: a request is answered with 200 only when its message has been posted
\* to Discord; a request whose formatting or whose post failed is never
\* answered with 200, and its one response is 500.
OkOnlyAfterPost ==
  \A r \in Slots :
    LET h == hook[r]
        ok == \E k \in 1..Len(h.responses) : h.responses[k] = 200
    IN  /\ ok => h.posted
        /\ h.failure # "none" =>
             /\ ~ok
             /\ h.pc = "done" => h.responses = <<500>>

\* one request was forwarded and answered with 200, the post of another
\* failed and it was answered with 500
OkOnlyAfterPostWitness ==
  \E r \in Slots, t \in Slots :
    /\ hook[r].posted
    /\ hook[r].responses = <<200>>
    /\ hook[t].failure = "post"
    /\ hook[t].responses = <<500>>

----------------------------------------------------------------------------
\* C24: every run of exportAndArchive reaches its end, and by then every
\* configured channel has been taken up, whatever failed for the channels
\* before it.
LaterChannelsAreProcessed ==
  /\ <>(job.jpc = "end")
  /\ [](job.jpc = "end" => \A c \in ChannelIds : job.chans[c].fetchAsked)

\* the run is over, the first channel failed in an upload, and the last
\* channel was exported, written and uploaded
LaterChannelsWitness ==
  /\ job.jpc = "end"
  /\ job.chans[1].failedAt = "upload"
  /\ job.chans[MaxChannels].written
  /\ job.chans[MaxChannels].uploads = 1
  /\ job.chans[MaxChannels].failedAt = "none"

----------------------------------------------------------------------------
\* a pass is about to post the 'created' notice of the event, or has found
\* no page for it and may go on to create one and post the notice
noticePending(e) ==
  \E p \in Passes :
    /\ pass[p].cpc \in {"write", "notifyCreated"}
    /\ pass[p].events[pass[p].i].id = e
    /\ pass[p].cpc = "write" => ~pass[p].found

\* C25: a failure for one event leaves its 'created' notice open to a later
\* pass.  A pass posts the notice only after a query that found no page,
\* so the notice of an event that has a page is either posted already or
\* pending in a pass that is handling the event.
CreatedNoticeStaysOpen ==
  \A e \in EventIds :
    notionPages[e] > 0 =>
      \/ \E post \in discordPosts : post.kind = "created" /\ post.id = e
      \/ noticePending(e)

====
